---- MODULE Spec2Model ----
(***************************************************************************)
(* Phaser.Cameras.Scene2D.CameraManager (src/cameras/2d/CameraManager.js). *)
(*                                                                         *)
(* The Camera Manager is modelled as a state machine.  Every method of     *)
(* the class is a pure operator from a manager record m to the manager     *)
(* record after the call, so that the calls the code nests (boot calls     *)
(* fromJSON, fromJSON calls add, destroy calls shutdown, a signal runs     *)
(* every listener) compose as they do in the code.  An action of the       *)
(* state machine is one call made by user code, or one lifecycle signal    *)
(* emitted by the owning Scene.                                            *)
(*                                                                         *)
(* Camera objects are references 1, 2, ...; NoRef stands for the           *)
(* JavaScript values undefined and null.  A reference that neither the     *)
(* manager nor the caller can reach any more is garbage and may name the   *)
(* next object that is constructed.                                        *)
(***************************************************************************)
EXTENDS Integers, Sequences, FiniteSets, TLC

\* ---------------------------------------------------------------- bounds
\* Spec: longest cameras array.
MaxLen == 2
\* Spec, SpecReg: nextID stays within 1 .. 2^MaxShift.
MaxShift == 3
\* longest camera configuration list given to the Scene.
MaxCfg == 1
\* Spec: listeners the manager may hold on the destroy signal.
MaxDestroySubs == 2
\* SpecReg: cameras that exist at the same time, registered or held by the
\* caller after their removal.
MaxRegLive == 3
\* SpecCap: longest cameras array.
MaxCapLen == 34
\* SpecView: longest cameras array; nextID stays within 1 .. 2^MaxViewLen.
MaxViewLen == 2
\* SpecJSON: longest cameras array.
MaxJSONLen == 3
\* SpecJSON: longest configuration list given to fromJSON.
MaxJSONList == 2

\* ------------------------------------------------------------- constants
\* this.scene.sys.game.config.width / height
GameWidth == 2
GameHeight == 2

NoRef == 0
\* the manager itself, as a method's return value
This == -2
\* an argument that was not passed (undefined)
Undef == -1

Two30 == 1073741824

RECURSIVE Pow2(_)
Pow2(n) == IF n = 0 THEN 1 ELSE 2 * Pow2(n - 1)

\* ToInt32(n << 1) for a 32-bit signed n; TLC's integers are 32 bits wide,
\* so the result is put together from bits 0..29 and bit 30 of n.
Shl1(n) ==
    LET low30 == n % Two30
        bit30 == (n \div Two30) % 2
    IN  IF bit30 = 1 THEN (2 * low30 - Two30) - Two30 ELSE 2 * low30

Range(s) == {s[i] : i \in 1..Len(s)}

\* Array.prototype.indexOf, 0-based, -1 when absent
IndexOf(s, c) ==
    IF c \in Range(s)
    THEN (CHOOSE i \in 1..Len(s) : s[i] = c /\ \A j \in 1..(i - 1) : s[j] # c) - 1
    ELSE -1

\* Array.prototype.splice(index, 1), index 0-based
Splice1(s, index) ==
    [i \in 1..(Len(s) - 1) |-> IF i <= index THEN s[i] ELSE s[i + 1]]

\* array[0]
Elem0(s) == IF Len(s) = 0 THEN NoRef ELSE s[1]

\* GetFastValue(source, key, defaultValue)
GetFastValue(source, key, default) ==
    IF key \in DOMAIN source THEN source[key] ELSE default

\* ------------------------------------------------------------ the state
VARIABLES
    cameras,    \* this.cameras: sequence of camera references
    main,       \* this.main: a camera reference or NoRef (undefined)
    nextID,     \* this.nextID: 32-bit signed integer
    cam,        \* the Camera objects: reference -> record of its fields
    scene,      \* this.scene is set (TRUE) or null (FALSE)
    systems,    \* this.systems is set (TRUE) or null (FALSE)
    subs,       \* listeners the manager holds on the Scene's event emitter
    settings,   \* scene.sys.settings.cameras
    host,       \* lifecycle state of the owning Scene
    held,       \* cameras the caller holds that are not registered
    last,       \* the last call or signal: its name, arguments, results and
                \* error, and cameras.length, main and the id of the camera
                \* argument when it was made
    calls,      \* the Camera and Renderer methods the last call or signal
                \* invoked
    issued      \* the ids given to cameras since construction or the last
                \* resetAll

vars == <<cameras, main, nextID, cam, scene, systems, subs, settings, host,
          held, last, calls, issued>>

\* new Camera(x, y, width, height); a new Camera has id 0, is visible and
\* opaque and takes input.  Of a Camera the model keeps the fields the
\* manager reads or writes: id, name, the viewport, visible, alpha and
\* inputEnabled.
NewCamera(x, y, width, height) ==
    [id |-> 0, name |-> "", x |-> x, y |-> y, width |-> width,
     height |-> height, visible |-> TRUE, alpha |-> 1, inputEnabled |-> TRUE]

\* the objects that exist
Live(m) == DOMAIN m.cam

\* the reference of the next object constructed
Fresh(m) ==
    CHOOSE c \in 1..(Cardinality(Live(m)) + 1) :
        c \notin Live(m) /\ \A d \in 1..(c - 1) : d \in Live(m)

\* the heap after an object was constructed under reference c
Construct(m, c, obj) ==
    [m EXCEPT !.cam = [d \in Live(m) \cup {c} |-> IF d = c THEN obj ELSE m.cam[d]]]

Throw(m) == [m EXCEPT !.err = TRUE]

Call(m, method, c) == [m EXCEPT !.calls = Append(@, <<method, c>>)]

\* ------------------------------------------------ CameraManager methods

\* camera.id = this.nextID
addID(m) == m.nextID

\* this.nextID = this.nextID << 1
addShiftTwice(m) == Shl1(Shl1(m.nextID))
addShift(m) == Shl1(m.nextID)

addPushTwice(s, c) == Append(Append(s, c), c)

\* this.cameras.push(camera)
addPush(s, c) == Append(s, c)

add(m, x, y, width, height, makeMain, name) ==
    IF (width = Undef \/ height = Undef) /\ ~m.scene THEN Throw(m)
    ELSE
    LET x1 == IF x = Undef THEN 0 ELSE x
        y1 == IF y = Undef THEN 0 ELSE y
        w1 == IF width = Undef THEN GameWidth ELSE width
        h1 == IF height = Undef THEN GameHeight ELSE height
        camera == Fresh(m)
        obj == [NewCamera(x1, y1, w1, h1) EXCEPT !.name = name]
        m1 == Call([Construct(m, camera, obj) EXCEPT
                             !.cameras = addPush(@, camera)], "new", camera)
        m2 == IF makeMain THEN [m1 EXCEPT !.main = camera] ELSE m1
    IN  [m2 EXCEPT !.cam[camera].id = addID(m),
                   !.nextID = addShift(m),
                   !.ret = camera]

addExistingNoIndexOf(m, camera, makeMain) ==
    LET m1 == [m EXCEPT !.cameras = Append(@, camera),
                        !.cam[camera].id = m.nextID,
                        !.nextID = Shl1(m.nextID)]
        m2 == IF makeMain THEN [m1 EXCEPT !.main = camera] ELSE m1
    IN  [m2 EXCEPT !.ret = camera]

addExisting(m, camera, makeMain) ==
    LET index == IndexOf(m.cameras, camera)
    IN  IF index = -1
        THEN LET m1 == [m EXCEPT !.cameras = Append(@, camera),
                                 !.cam[camera].id = m.nextID,
                                 !.nextID = Shl1(m.nextID)]
                 m2 == IF makeMain THEN [m1 EXCEPT !.main = camera] ELSE m1
             IN  [m2 EXCEPT !.ret = camera]
        ELSE [m EXCEPT !.ret = NoRef]

RECURSIVE fromJSONLoop(_, _, _)
fromJSONLoop(m, config, i) ==
    IF i > Len(config) \/ m.err THEN m
    ELSE
    LET cameraConfig == config[i]
        x == GetFastValue(cameraConfig, "x", 0)
        y == GetFastValue(cameraConfig, "y", 0)
        width == GetFastValue(cameraConfig, "width", GameWidth)
        height == GetFastValue(cameraConfig, "height", GameHeight)
        m1 == add(m, x, y, width, height, FALSE, "")
        camera == m1.ret
        m2 == [m1 EXCEPT !.cam[camera].name = GetFastValue(cameraConfig, "name", ""),
                         !.cam[camera].visible = GetFastValue(cameraConfig, "visible", TRUE)]
    IN  fromJSONLoop(m2, config, i + 1)

\* config is [isArray, items]: an array of records, or one record (items
\* of length 1) that fromJSON wraps into an array
fromJSONNoWrap(m, config) ==
    IF ~m.scene THEN Throw(m)
    ELSE
    LET list == IF ~config.isArray THEN <<>> ELSE config.items
    IN  [fromJSONLoop(m, list, 1) EXCEPT !.ret = This]

fromJSON(m, config) ==
    IF ~m.scene THEN Throw(m)
    ELSE
    LET list == IF ~config.isArray THEN <<config.items[1]>> ELSE config.items
    IN  [fromJSONLoop(m, list, 1) EXCEPT !.ret = This]

removeClearsID(m, camera) ==
    LET cameraIndex == IndexOf(m.cameras, camera)
        m0 == [m EXCEPT !.ret = NoRef]
    IN  IF cameraIndex >= 0 /\ Len(m.cameras) > 1
        THEN LET m1 == [m0 EXCEPT !.cameras = Splice1(@, cameraIndex),
                                  !.cam[camera].id = 0]
             IN  IF m.main = camera
                 THEN [m1 EXCEPT !.main = Elem0(m1.cameras)]
                 ELSE m1
        ELSE m0

removeLast(m, camera) ==
    LET cameraIndex == IndexOf(m.cameras, camera)
        m0 == [m EXCEPT !.ret = NoRef]
    IN  IF cameraIndex >= 0 /\ Len(m.cameras) >= 1
        THEN LET m1 == [m0 EXCEPT !.cameras = Splice1(@, cameraIndex)]
             IN  IF m.main = camera
                 THEN [m1 EXCEPT !.main = Elem0(m1.cameras)]
                 ELSE m1
        ELSE m0

removeKeepMain(m, camera) ==
    LET cameraIndex == IndexOf(m.cameras, camera)
        m0 == [m EXCEPT !.ret = NoRef]
    IN  IF cameraIndex >= 0 /\ Len(m.cameras) > 1
        THEN [m0 EXCEPT !.cameras = Splice1(@, cameraIndex)]
        ELSE m0

remove(m, camera) ==
    LET cameraIndex == IndexOf(m.cameras, camera)
        m0 == [m EXCEPT !.ret = NoRef]
    IN  IF cameraIndex >= 0 /\ Len(m.cameras) > 1
        THEN LET m1 == [m0 EXCEPT !.cameras = Splice1(@, cameraIndex)]
             IN  IF m.main = camera
                 THEN [m1 EXCEPT !.main = Elem0(m1.cameras)]
                 ELSE m1
        ELSE m0

\* for (i...) this.cameras[i].destroy()
RECURSIVE destroyAll(_, _)
destroyAll(m, i) ==
    IF i > Len(m.cameras) THEN m
    ELSE destroyAll(Call(m, "destroy", m.cameras[i]), i + 1)

resetAllKeepID(m) ==
    LET m1 == destroyAll(m, 1)
        m2 == [m1 EXCEPT !.cameras = <<>>]
        m3 == add(m2, Undef, Undef, Undef, Undef, FALSE, "")
    IN  IF m3.err THEN m3 ELSE [m3 EXCEPT !.main = m3.ret]

resetAll(m) ==
    LET m1 == destroyAll(m, 1)
        m2 == [m1 EXCEPT !.cameras = <<>>, !.nextID = 1]
        m3 == add(m2, Undef, Undef, Undef, Undef, FALSE, "")
    IN  IF m3.err THEN m3 ELSE [m3 EXCEPT !.main = m3.ret]

\* the first camera at index i or beyond whose name is the given one
RECURSIVE getCameraFrom(_, _, _)
getCameraFrom(m, name, i) ==
    IF i > Len(m.cameras) THEN NoRef
    ELSE IF m.cam[m.cameras[i]].name = name THEN m.cameras[i]
    ELSE getCameraFrom(m, name, i + 1)

getCameraFromSecond(m, name) == [m EXCEPT !.ret = getCameraFrom(m, name, 2)]

getCamera(m, name) == [m EXCEPT !.ret = getCameraFrom(m, name, 1)]

\* geom/rectangle/Contains: the point lies in the rectangle, borders included
RectangleContains(rect, x, y) ==
    IF rect.width <= 0 \/ rect.height <= 0 THEN FALSE
    ELSE /\ rect.x <= x /\ rect.x + rect.width >= x
         /\ rect.y <= y /\ rect.y + rect.height >= y

UnshiftAsPush(output, camera) == Append(output, camera)

\* output.unshift(camera)
Unshift(output, camera) == <<camera>> \o output

RECURSIVE belowPointerLoop(_, _, _, _)
belowPointerLoop(m, pointer, i, output) ==
    IF i > Len(m.cameras) THEN output
    ELSE
    LET camera == m.cam[m.cameras[i]]
    IN  IF camera.visible /\ camera.inputEnabled
           /\ RectangleContains(camera, pointer.x, pointer.y)
        THEN belowPointerLoop(m, pointer, i + 1, Unshift(output, m.cameras[i]))
        ELSE belowPointerLoop(m, pointer, i + 1, output)

getCamerasBelowPointer(m, pointer) ==
    [m EXCEPT !.out = belowPointerLoop(m, pointer, 1, <<>>)]

renderCameraAnyAlpha(m, camera) ==
    IF m.cam[camera].visible
    THEN Call(Call(m, "preRender", camera), "render", camera)
    ELSE m

\* camera.preRender(...) then renderer.render(..., camera), for a camera
\* that is visible and not fully transparent
renderCamera(m, camera) ==
    IF m.cam[camera].visible /\ m.cam[camera].alpha > 0
    THEN Call(Call(m, "preRender", camera), "render", camera)
    ELSE m

RECURSIVE renderLoop(_, _)
renderLoop(m, i) ==
    IF i > Len(m.cameras) THEN m
    ELSE renderLoop(renderCamera(m, m.cameras[i]), i + 1)

render(m) == renderLoop(m, 1)

updateCameraIfVisible(m, camera) ==
    IF m.cam[camera].visible THEN Call(m, "update", camera) ELSE m

\* this.cameras[i].update(timestep, delta)
updateCamera(m, camera) == Call(m, "update", camera)

RECURSIVE updateAll(_, _)
updateAll(m, i) ==
    IF i > Len(m.cameras) THEN m
    ELSE updateAll(updateCamera(m, m.cameras[i]), i + 1)

update(m) == updateAll(m, 1)

\* sys.settings.cameras is truthy: any object or array, the empty array too
Truthy(config) == config.given

boot(m) ==
    IF ~m.systems THEN Throw(m)
    ELSE
    LET m1 == IF Truthy(m.settings)
              THEN fromJSON(m, m.settings)
              ELSE add(m, Undef, Undef, Undef, Undef, FALSE, "")
    IN  IF m1.err THEN m1
        ELSE [m1 EXCEPT !.main = Elem0(m1.cameras),
                        !.subs.destroy = @ + 1]

startAlwaysBoot(m) ==
    LET m1 == boot(m)
    IN  IF m1.err THEN m1
        ELSE IF ~m1.systems THEN Throw(m1)
        ELSE [m1 EXCEPT !.subs.update = @ + 1, !.subs.shutdown = @ + 1]

startUpdateTwice(m) ==
    LET m1 == IF m.main = NoRef THEN boot(m) ELSE m
    IN  IF m1.err THEN m1
        ELSE IF ~m1.systems THEN Throw(m1)
        ELSE [m1 EXCEPT !.subs.update = @ + 2, !.subs.shutdown = @ + 1]

start(m) ==
    LET m1 == IF m.main = NoRef THEN boot(m) ELSE m
    IN  IF m1.err THEN m1
        ELSE IF ~m1.systems THEN Throw(m1)
        ELSE [m1 EXCEPT !.subs.update = @ + 1, !.subs.shutdown = @ + 1]

shutdownNoDestroy(m) ==
    LET m1 == [m EXCEPT !.main = NoRef]
        m2 == [m1 EXCEPT !.cameras = <<>>]
    IN  IF ~m2.systems THEN Throw(m2)
        ELSE [m2 EXCEPT !.subs.update = 0, !.subs.shutdown = 0]

shutdownKeepUpdate(m) ==
    LET m1 == [m EXCEPT !.main = NoRef]
        m2 == [destroyAll(m1, 1) EXCEPT !.cameras = <<>>]
    IN  IF ~m2.systems THEN Throw(m2)
        ELSE [m2 EXCEPT !.subs.shutdown = 0]

shutdown(m) ==
    LET m1 == [m EXCEPT !.main = NoRef]
        m2 == [destroyAll(m1, 1) EXCEPT !.cameras = <<>>]
    IN  IF ~m2.systems THEN Throw(m2)
        ELSE [m2 EXCEPT !.subs.update = 0, !.subs.shutdown = 0]

destroyKeepStart(m) ==
    LET m1 == shutdown(m)
    IN  IF m1.err THEN m1
        ELSE IF ~m1.scene THEN Throw(m1)
        ELSE [m1 EXCEPT !.scene = FALSE, !.systems = FALSE]

destroy(m) ==
    LET m1 == shutdown(m)
    IN  IF m1.err THEN m1
        ELSE IF ~m1.scene THEN Throw(m1)
        ELSE [m1 EXCEPT !.subs.start = 0, !.scene = FALSE, !.systems = FALSE]

\* ------------------------------------------- the Scene's event emitter
Listener(m, event) ==
    CASE event = "boot" -> boot(m)
      [] event = "start" -> start(m)
      [] event = "update" -> update(m)
      [] event = "shutdown" -> shutdown(m)
      [] event = "destroy" -> destroy(m)

\* the emitter calls the n listeners it found registered, one after the
\* other; a listener that throws ends the emit
RECURSIVE RunListeners(_, _, _)
RunListeners(m, event, n) ==
    IF n = 0 \/ m.err THEN m
    ELSE RunListeners(Listener(m, event), event, n - 1)

OnceEvents == {"boot", "shutdown", "destroy"}

\* a listener added with once() is removed before it is called
emit(m, event) ==
    LET n == m.subs[event]
        m1 == IF event \in OnceEvents THEN [m EXCEPT !.subs[event] = 0] ELSE m
    IN  RunListeners(m1, event, n)

\* ------------------------------------------------------ state and steps
St == [cameras |-> cameras, main |-> main, nextID |-> nextID, cam |-> cam,
       scene |-> scene, systems |-> systems, subs |-> subs,
       settings |-> settings, held |-> held,
       calls |-> <<>>, err |-> FALSE, ret |-> NoRef, out |-> <<>>,
       param |-> NoRef]

\* objects that neither the manager nor the caller references are garbage
Collect(m, keep) ==
    [m EXCEPT !.cam = [c \in Range(m.cameras) \cup keep |-> m.cam[c]],
              !.held = keep \ Range(m.cameras)]

Commit(m, keep, op, arg, h) ==
    LET r == Collect(m, keep)
    IN  /\ cameras' = r.cameras
        /\ main' = r.main
        /\ nextID' = r.nextID
        /\ cam' = r.cam
        /\ scene' = r.scene
        /\ systems' = r.systems
        /\ subs' = r.subs
        /\ held' = r.held
        /\ calls' = r.calls
        /\ last' = [op |-> op, arg |-> arg, param |-> r.param, ret |-> r.ret,
                    out |-> r.out, err |-> r.err,
                    len0 |-> Len(cameras), main0 |-> main,
                    id0 |-> IF arg \in DOMAIN cam THEN cam[arg].id ELSE 0]
        /\ issued' = (IF op = "resetAll" THEN {} ELSE issued)
                         \cup {m.cam[c].id : c \in Range(m.cameras) \ Range(cameras)}
        /\ host' = h
        /\ UNCHANGED settings

EmptyRec == [k \in {} |-> 0]
CfgRecords == {EmptyRec}

RECURSIVE SeqsUpTo(_, _)
SeqsUpTo(S, n) ==
    IF n = 0 THEN {<<>>}
    ELSE LET shorter == SeqsUpTo(S, n - 1)
         IN  shorter \cup {Append(s, e) : s \in {t \in shorter : Len(t) = n - 1}, e \in S}

\* scene.sys.settings.cameras: absent, one record, or an array of records
NoSettings == [given |-> FALSE, isArray |-> FALSE, items |-> <<>>]

SettingsValues ==
    {NoSettings}
    \cup {[given |-> TRUE, isArray |-> FALSE, items |-> <<r>>] : r \in CfgRecords}
    \cup {[given |-> TRUE, isArray |-> TRUE, items |-> s] : s \in SeqsUpTo(CfgRecords, MaxCfg)}

\* the state the constructor leaves
InitManager ==
    /\ cameras = <<>>
    /\ main = NoRef
    /\ nextID = 1
    /\ cam = [c \in {} |-> 0]
    /\ scene = TRUE
    /\ systems = TRUE
    /\ subs = [boot |-> 1, start |-> 1, update |-> 0, shutdown |-> 0, destroy |-> 0]
    /\ host = "Unbooted"
    /\ held = {}
    /\ last = [op |-> "new", arg |-> NoRef, param |-> NoRef, ret |-> NoRef,
               out |-> <<>>, err |-> FALSE, len0 |-> 0, main0 |-> NoRef,
               id0 |-> 0]
    /\ calls = <<>>
    /\ issued = {}

\* user code reaches the plugin from the boot signal until destroy
ApiStates == {"Booted", "Started", "ShutDown"}

\* ----------------------------------------------------- lifecycle signals
\* The Scene emits boot once, then start and shutdown in pairs, update on
\* every frame between a start and its shutdown, and destroy once.
Signal(event, h) == Commit(emit(St, event), held, event, NoRef, h)

DoBoot == host = "Unbooted" /\ Signal("boot", "Booted")

DoStart == host \in {"Booted", "ShutDown"} /\ Signal("start", "Started")

DoUpdate == host = "Started" /\ Signal("update", "Started")

DoShutdown == host = "Started" /\ Signal("shutdown", "ShutDown")

DoDestroy == host \in ApiStates /\ Signal("destroy", "Destroyed")

\* a signal that reaches the emitter after the Scene was destroyed
DoLateSignal(event) == host = "Destroyed" /\ Signal(event, "Destroyed")

\* shutdown run directly rather than by the shutdown signal
DoShutdownCall ==
    /\ host \in ApiStates
    /\ Commit(shutdown(St), held, "shutdown()", NoRef, host)

\* ------------------------------------------------------------ user calls
DoAdd(makeMain) ==
    /\ host \in ApiStates
    /\ Commit(add(St, Undef, Undef, Undef, Undef, makeMain, ""), held,
              "add", NoRef, host)

\* addExisting with a camera that is registered or that the caller holds
DoAddExisting(camera, makeMain) ==
    /\ host \in ApiStates
    /\ Commit(addExisting(St, camera, makeMain), held, "addExisting", camera, host)

\* addExisting with a camera the caller has just constructed
DoAddExistingNew(makeMain) ==
    /\ host \in ApiStates
    /\ LET camera == Fresh(St)
           m == Construct(St, camera, NewCamera(0, 0, GameWidth, GameHeight))
       IN  Commit(addExisting(m, camera, makeMain), held, "addExisting", camera, host)

DoFromJSON(config) ==
    /\ host \in ApiStates
    /\ Commit(fromJSON(St, config), held, "fromJSON", NoRef, host)

\* remove with a camera that is registered or that the caller holds; the
\* caller keeps or drops its own reference to the camera
DoRemove(camera, keep) ==
    /\ host \in ApiStates
    /\ Commit(remove(St, camera), IF keep THEN held \cup {camera} ELSE held \ {camera},
              "remove", camera, host)

\* remove with a camera the caller has just constructed
DoRemoveNew ==
    /\ host \in ApiStates
    /\ LET camera == Fresh(St)
           m == Construct(St, camera, NewCamera(0, 0, GameWidth, GameHeight))
       IN  Commit(remove(m, camera), held, "remove", camera, host)

DoResetAll ==
    /\ host \in ApiStates
    /\ Commit(resetAll(St), held, "resetAll", NoRef, host)

\* add with a viewport position and a name
DoAddAt(x, name) ==
    /\ host \in ApiStates
    /\ Commit(add(St, x, Undef, Undef, Undef, FALSE, name), held,
              "add", NoRef, host)

\* user code writes camera.visible, camera.alpha or camera.inputEnabled of
\* a registered camera
DoSetVisible(camera, value) ==
    /\ host \in ApiStates
    /\ Commit([St EXCEPT !.cam[camera].visible = value], held,
              "setVisible", camera, host)

DoSetAlpha(camera, value) ==
    /\ host \in ApiStates
    /\ Commit([St EXCEPT !.cam[camera].alpha = value], held,
              "setAlpha", camera, host)

DoSetInputEnabled(camera, value) ==
    /\ host \in ApiStates
    /\ Commit([St EXCEPT !.cam[camera].inputEnabled = value], held,
              "setInputEnabled", camera, host)

DoGetCamera(name) ==
    /\ host \in ApiStates
    /\ Commit([getCamera(St, name) EXCEPT !.param = name], held,
              "getCamera", NoRef, host)

DoGetCamerasBelowPointer(pointer) ==
    /\ host \in ApiStates
    /\ Commit([getCamerasBelowPointer(St, pointer) EXCEPT !.param = pointer], held,
              "getCamerasBelowPointer", NoRef, host)

\* the Scene renders its cameras
DoRender ==
    /\ host \in ApiStates
    /\ Commit(render(St), held, "render", NoRef, host)

\* fromJSON, with the configuration it was given kept for inspection
DoFromJSONConfig(config) ==
    /\ host \in ApiStates
    /\ Commit([fromJSON(St, config) EXCEPT !.param = config], held,
              "fromJSON", NoRef, host)

\* update run on its own, as the update signal's listener runs it
DoUpdateCall ==
    /\ host \in ApiStates
    /\ Commit(update(St), held, "update()", NoRef, host)

\* ------------------------------------------------------------------ Spec
\* every lifecycle signal and every user call
Bounded ==
    /\ Len(cameras) <= MaxLen
    /\ nextID \in 0..Pow2(MaxShift)
    /\ subs.destroy <= MaxDestroySubs

Init == InitManager /\ settings \in SettingsValues

BootSignal == DoBoot /\ Bounded'

StartSignal == DoStart /\ Bounded'

UpdateSignal == DoUpdate /\ Bounded'

ShutdownSignal == DoShutdown /\ Bounded'

DestroySignal == DoDestroy /\ Bounded'

Add == \E makeMain \in BOOLEAN : DoAdd(makeMain) /\ Bounded'

AddExisting ==
    \E makeMain \in BOOLEAN :
        \/ \E camera \in Range(cameras) : DoAddExisting(camera, makeMain) /\ Bounded'
        \/ DoAddExistingNew(makeMain) /\ Bounded'

FromJSON == \E config \in SettingsValues : config.given /\ DoFromJSON(config) /\ Bounded'

Remove ==
    \/ \E camera \in Range(cameras) : DoRemove(camera, FALSE) /\ Bounded'
    \/ DoRemoveNew /\ Bounded'

ResetAll == DoResetAll /\ Bounded'

LateSignal == \E event \in DOMAIN subs : DoLateSignal(event)

Next ==
    \/ BootSignal
    \/ StartSignal
    \/ UpdateSignal
    \/ ShutdownSignal
    \/ DestroySignal
    \/ LateSignal
    \/ Add
    \/ AddExisting
    \/ FromJSON
    \/ Remove
    \/ ResetAll

Spec == Init /\ [][Next]_vars

\* -------------------------------------------------------------- SpecShut
\* Spec, and shutdown run directly at any time before destroy
ShutdownCall == DoShutdownCall /\ Bounded'

NextShut ==
    \/ Next
    \/ ShutdownCall

SpecShut == Init /\ [][NextShut]_vars

\* --------------------------------------------------------------- SpecReg
\* the registry of a booted Scene, with a caller that keeps references
\* to cameras it removed
RegBounded ==
    /\ Cardinality(DOMAIN cam) <= MaxRegLive
    /\ nextID \in 0..Pow2(MaxShift)

InitReg == InitManager /\ settings = NoSettings

RegBoot == DoBoot /\ RegBounded'

RegAdd == \E makeMain \in BOOLEAN : DoAdd(makeMain) /\ RegBounded'

RegAddExisting ==
    \E makeMain \in BOOLEAN :
        \/ \E camera \in Range(cameras) \cup held :
              DoAddExisting(camera, makeMain) /\ RegBounded'
        \/ DoAddExistingNew(makeMain) /\ RegBounded'

RegRemove ==
    \/ \E camera \in Range(cameras) \cup held, keep \in BOOLEAN :
          DoRemove(camera, keep) /\ RegBounded'
    \/ DoRemoveNew /\ RegBounded'

\* the caller resets the registry while it holds no removed camera
RegResetAll == held = {} /\ DoResetAll /\ RegBounded'

NextReg ==
    \/ RegBoot
    \/ RegAdd
    \/ RegAddExisting
    \/ RegRemove
    \/ RegResetAll

SpecReg == InitReg /\ [][NextReg]_vars

\* --------------------------------------------------------------- SpecCap
\* the identity bits up to and beyond the 32nd: cameras are added, and
\* the camera added last is removed while no more than two are registered
CapBounded == Len(cameras) <= MaxCapLen

InitCap == InitManager /\ settings = NoSettings

CapBoot == DoBoot /\ CapBounded'

CapAdd == \E makeMain \in BOOLEAN : DoAdd(makeMain) /\ CapBounded'

CapRemove ==
    /\ Len(cameras) \in 1..2
    /\ DoRemove(cameras[Len(cameras)], FALSE)
    /\ CapBounded'

NextCap ==
    \/ CapBoot
    \/ CapAdd
    \/ CapRemove

SpecCap == InitCap /\ [][NextCap]_vars

\* -------------------------------------------------------------- SpecView
\* a booted registry whose cameras differ in name, viewport, visibility,
\* alpha and input, and the calls that read those fields
ViewBounded ==
    /\ Len(cameras) <= MaxViewLen
    /\ nextID \in 0..Pow2(MaxViewLen)

Names == {"", "hud"}
\* the x and name arguments user code gives to add
ViewAdds == {[x |-> Undef, name |-> ""], [x |-> GameWidth + 1, name |-> "hud"]}
Alphas == {0, 1}
Pointers == {[x |-> 1, y |-> 1], [x |-> GameWidth + 2, y |-> 1]}

ViewSettings ==
    {NoSettings,
     [given |-> TRUE, isArray |-> TRUE,
      items |-> <<[name |-> "hud", visible |-> FALSE]>>]}

InitView == InitManager /\ settings \in ViewSettings

ViewBoot == DoBoot /\ ViewBounded'

ViewAdd == \E a \in ViewAdds : DoAddAt(a.x, a.name) /\ ViewBounded'

ViewRemove == \E camera \in Range(cameras) : DoRemove(camera, FALSE)

ViewSetVisible ==
    \E camera \in Range(cameras) : DoSetVisible(camera, ~cam[camera].visible)

ViewSetAlpha ==
    \E camera \in Range(cameras), value \in Alphas :
        value # cam[camera].alpha /\ DoSetAlpha(camera, value)

ViewSetInputEnabled ==
    \E camera \in Range(cameras) :
        DoSetInputEnabled(camera, ~cam[camera].inputEnabled)

ViewGetCamera == \E name \in Names : DoGetCamera(name)

ViewGetCamerasBelowPointer ==
    \E pointer \in Pointers : DoGetCamerasBelowPointer(pointer)

ViewRender == DoRender

ViewUpdate == DoUpdateCall

NextView ==
    \/ ViewBoot
    \/ ViewAdd
    \/ ViewRemove
    \/ ViewSetVisible
    \/ ViewSetAlpha
    \/ ViewSetInputEnabled
    \/ ViewGetCamera
    \/ ViewGetCamerasBelowPointer
    \/ ViewRender
    \/ ViewUpdate

SpecView == InitView /\ [][NextView]_vars

\* -------------------------------------------------------------- SpecJSON
\* a booted registry that user code fills from configuration records and
\* lists of them
JSONBounded ==
    /\ Len(cameras) <= MaxJSONLen
    /\ nextID \in 0..Pow2(MaxJSONLen + 1)

JSONRecords == {EmptyRec, [x |-> GameWidth + 1, name |-> "hud"]}

JSONConfigs ==
    {[given |-> TRUE, isArray |-> FALSE, items |-> <<r>>] : r \in JSONRecords}
    \cup {[given |-> TRUE, isArray |-> TRUE, items |-> s] :
              s \in SeqsUpTo(JSONRecords, MaxJSONList)}

InitJSON ==
    /\ InitManager
    /\ settings \in {NoSettings, [given |-> TRUE, isArray |-> TRUE, items |-> <<>>]}

JSONBoot == DoBoot /\ JSONBounded'

JSONFromJSON == \E config \in JSONConfigs : DoFromJSONConfig(config) /\ JSONBounded'

JSONAdd == \E makeMain \in BOOLEAN : DoAdd(makeMain) /\ JSONBounded'

JSONRemove == \E camera \in Range(cameras) : DoRemove(camera, FALSE) /\ JSONBounded'

NextJSON ==
    \/ JSONBoot
    \/ JSONFromJSON
    \/ JSONAdd
    \/ JSONRemove

SpecJSON == InitJSON /\ [][NextJSON]_vars

\* ================================================================ claims
MinInt32 == (0 - Two30) - Two30

\* n2 = 2 * n1, stated without forming 2 * n1 (which may not fit 32 bits)
IsTwice(n2, n1) == n2 % 2 = 0 /\ n2 \div 2 = n1

\* C1: any two distinct cameras registered at the same time have different
\* ids, and every id of a registered camera is one of 1, 2, 4, ..., 2^30.
C1_UniquePowerOfTwoIds ==
    /\ \A i, j \in 1..Len(cameras) :
           i # j => cam[cameras[i]].id # cam[cameras[j]].id
    /\ \A i \in 1..Len(cameras) :
           \E k \in 0..30 : cam[cameras[i]].id = Pow2(k)

\* C2 as stated: every add appends exactly one camera, returns a camera
\* whose id is nextID before the call, and leaves nextID exactly twice its
\* value before the call.
C2_AddDoubles ==
    [][last'.op = "add" =>
          /\ cameras' = Append(cameras, last'.ret)
          /\ cam'[last'.ret].id = nextID
          /\ IsTwice(nextID', nextID)]_vars

\* C2 as amended: every add appends exactly one camera and returns a camera
\* whose id is nextID before the call; nextID afterwards is the 32-bit
\* signed value of nextID << 1, which is twice the value before the call
\* while that is between 1 and 2^29, -2^31 when it is 2^30, and 0 when it
\* is -2^31 or 0.
C2_AddShiftsInt32 ==
    [][last'.op = "add" =>
          /\ cameras' = Append(cameras, last'.ret)
          /\ cam'[last'.ret].id = nextID
          /\ nextID \in {Pow2(k) : k \in 0..30} \cup {MinInt32, 0}
          /\ (nextID \in 1..(Two30 - 1) => IsTwice(nextID', nextID))
          /\ (nextID = Two30 => nextID' = MinInt32)
          /\ (nextID \in {MinInt32, 0} => nextID' = 0)]_vars

\* add was called while nextID was 2^30, the 31st identity bit
C2_Witness ==
    /\ last.op = "add"
    /\ cam[last.ret].id = Two30
    /\ nextID = MinInt32

\* C3: at most 31 cameras are registered at the same time.
C3_AtMost31Cameras == Len(cameras) <= 31

\* C4: once boot logic has run, whenever cameras is non-empty main
\* references a camera that is an element of cameras.
C4_MainIsRegistered ==
    (host # "Unbooted" /\ cameras # <<>>) => main \in Range(cameras)

\* C5: between boot logic and the next shutdown or destroy (lifecycle
\* states Booted and Started) cameras is never empty.
C5_NeverEmptyWhileRunning ==
    host \in {"Booted", "Started"} => cameras # <<>>

C7_RemoveReassignsMain ==
    [][(/\ last'.op = "remove"
        /\ last'.arg \in Range(cameras)
        /\ Len(cameras) >= 2) =>
          /\ Len(cameras') = Len(cameras) - 1
          /\ cameras' = SelectSeq(cameras, LAMBDA c : c # last'.arg)
          /\ (main = last'.arg => main' = cameras'[1])
          /\ (main # last'.arg => main' = main)]_vars

\* remove was called with main, the first of three cameras, and main is
\* now the camera that was second
C7_Witness ==
    /\ last.op = "remove"
    /\ last.len0 = 3
    /\ Len(cameras) = 2
    /\ last.main0 = last.arg
    /\ last.arg \notin Range(cameras)
    /\ main = cameras[1]

\* C8: addExisting with a camera that is not registered appends it and
\* returns it; addExisting with a camera that is registered returns null
\* and changes none of cameras, nextID, the camera's id and main; either
\* way the camera is registered exactly once afterwards.
C8_AddExistingOnce ==
    [][last'.op = "addExisting" =>
          /\ last'.arg \notin Range(cameras) =>
                /\ cameras' = Append(cameras, last'.arg)
                /\ last'.ret = last'.arg
          /\ last'.arg \in Range(cameras) =>
                /\ last'.ret = NoRef
                /\ cameras' = cameras
                /\ nextID' = nextID
                /\ cam'[last'.arg].id = cam[last'.arg].id
                /\ main' = main
          /\ Cardinality({i \in 1..Len(cameras') : cameras'[i] = last'.arg}) = 1]_vars

\* addExisting was called with a registered camera that is not main, and
\* returned null
C8_Witness ==
    /\ last.op = "addExisting"
    /\ last.arg \in Range(cameras)
    /\ last.ret = NoRef
    /\ last.len0 = Len(cameras)
    /\ main # last.arg

\* C9: after resetAll cameras holds exactly one camera, which was
\* constructed by the call and has id 1; nextID is 2, main references that
\* camera and resetAll returns it.
C9_ResetAllLeavesOne ==
    [][last'.op = "resetAll" =>
          /\ Len(cameras') = 1
          /\ cameras'[1] \notin DOMAIN cam
          /\ <<"new", cameras'[1]>> \in Range(calls')
          /\ cam'[cameras'[1]].id = 1
          /\ nextID' = 2
          /\ main' = cameras'[1]
          /\ last'.ret = cameras'[1]
          /\ ~last'.err]_vars

\* resetAll was called with two cameras registered and nextID beyond 2
C9_Witness ==
    /\ last.op = "resetAll"
    /\ last.len0 = 2
    /\ Len(calls) = 3
    /\ nextID = 2

\* C10: when boot logic runs with no camera configuration, on the boot
\* signal or re-run by start, exactly one camera exists afterwards, main
\* references it and its id is 1.
C10_BootLeavesCameraOne ==
    (/\ ~settings.given
     /\ \/ last.op = "boot"
        \/ last.op = "start" /\ last.main0 = NoRef) =>
          /\ Len(cameras) = 1
          /\ main = cameras[1]
          /\ cam[cameras[1]].id = 1

\* C11: render hands to the renderer exactly the cameras that are visible
\* and have alpha above 0, each once and in the order of the cameras array,
\* and calls a camera's preRender immediately before handing it over; a
\* camera that is invisible or has alpha 0 or less gets neither call.
Shown(c) == cam[c].visible /\ cam[c].alpha > 0

C11_RenderVisibleInOrder ==
    [][last'.op = "render" =>
          LET shown == SelectSeq(cameras, Shown)
          IN  /\ Len(calls') = 2 * Len(shown)
              /\ \A i \in 1..Len(shown) :
                     /\ calls'[2 * i - 1] = <<"preRender", shown[i]>>
                     /\ calls'[2 * i] = <<"render", shown[i]>>]_vars

\* a render of two cameras of which one is skipped
C11_Witness ==
    /\ last.op = "render"
    /\ Len(cameras) = 2
    /\ Len(calls) = 2
    /\ \E c \in Range(cameras) : cam[c].visible /\ cam[c].alpha = 0

\* C12: getCamerasBelowPointer returns exactly the cameras that are visible,
\* take input and whose viewport contains the pointer's position, each
\* once, in the reverse of their order in the cameras array.
C12_BelowPointerReversed ==
    [][last'.op = "getCamerasBelowPointer" =>
          LET Below(c) == /\ cam[c].visible
                          /\ cam[c].inputEnabled
                          /\ RectangleContains(cam[c], last'.param.x, last'.param.y)
              below == SelectSeq(cameras, Below)
          IN  /\ Len(last'.out) = Len(below)
              /\ \A i \in 1..Len(below) :
                     last'.out[i] = below[Len(below) + 1 - i]]_vars

\* two cameras lie below the pointer
C12_Witness ==
    /\ last.op = "getCamerasBelowPointer"
    /\ Len(last.out) = 2
    /\ last.out[1] = cameras[2]

\* C13: getCamera returns the camera of lowest index whose name is the given
\* one and null when no registered camera has that name; what it returns
\* is never a camera that was removed.
C13_GetCameraFirstMatch ==
    [][last'.op = "getCamera" =>
          LET found == {i \in 1..Len(cameras) : cam[cameras[i]].name = last'.param}
          IN  /\ found = {} => last'.ret = NoRef
              /\ found # {} =>
                     /\ last'.ret \in Range(cameras')
                     /\ \E i \in found : /\ last'.ret = cameras[i]
                                          /\ \A j \in found : i <= j]_vars

\* two registered cameras carry the name asked for
C13_Witness ==
    /\ last.op = "getCamera"
    /\ Len(cameras) = 2
    /\ \A c \in Range(cameras) : cam[c].name = last.param
    /\ last.ret = cameras[1]

\* C14: shutdown run on a manager that is not destroyed raises no error and
\* leaves cameras empty, main unset and no update or shutdown subscription;
\* run a second time in a row it raises no error and leaves the state the
\* first run left.
C14_ShutdownTwice ==
    [][last'.op = "shutdown()" =>
          /\ ~last'.err
          /\ cameras' = <<>>
          /\ main' = NoRef
          /\ subs'.update = 0
          /\ subs'.shutdown = 0
          /\ last.op = "shutdown()" =>
                 <<cameras', main', nextID', cam', scene', systems', subs'>>
                     = <<cameras, main, nextID, cam, scene, systems, subs>>]_vars

\* shutdown ran on a started manager that an earlier shutdown had emptied
C14_Witness ==
    /\ last.op = "shutdown()"
    /\ host = "Started"
    /\ ~settings.given
    /\ last.len0 = 0
    /\ last.main0 = NoRef

\* C15: whatever signals the Scene has sent (boot once, start and shutdown
\* in pairs, destroy), the manager holds at most one subscription to the
\* destroy signal, so that on the destroy signal its destroy handler runs
\* once and completes without error.
C15_OneDestroySubscription ==
    /\ subs.destroy <= 1
    /\ last.op = "destroy" => ~last.err

\* C16: subscriptions do not leak across start and shutdown: after a
\* shutdown the manager holds no update and no shutdown subscription, and
\* between a start and its shutdown it holds exactly one update
\* subscription, so that an update signal calls update once on each
\* registered camera.
C16_NoSubscriptionLeak ==
    [][/\ (last'.op = "shutdown" /\ host' = "ShutDown") =>
              (subs'.update = 0 /\ subs'.shutdown = 0)
       /\ host' = "Started" => subs'.update = 1
       /\ (last'.op = "update" /\ host' = "Started") =>
              /\ Len(calls') = Len(cameras)
              /\ \A i \in 1..Len(cameras) : calls'[i] = <<"update", cameras[i]>>]_vars

\* an update signal after a shutdown and a restart, with two cameras
C16_Witness ==
    /\ last.op = "update"
    /\ host = "Started"
    /\ ~settings.given
    /\ subs.destroy = 2
    /\ Len(cameras) = 2
    /\ Len(calls) = 2

C18_DestroyIsTerminal ==
    [][/\ host' = "Destroyed" =>
              /\ cameras' = <<>>
              /\ main' = NoRef
              /\ subs'.start = 0
              /\ subs'.update = 0
              /\ subs'.shutdown = 0
              /\ ~scene'
              /\ ~systems'
       /\ host = "Destroyed" => (cameras' = cameras /\ main' = main)]_vars

\* a start signal arrived after the destroy signal
C18_Witness ==
    /\ host = "Destroyed"
    /\ last.op = "start"
    /\ nextID > 1

\* C19: a camera's id never changes once the registry has assigned it: over
\* add, addExisting and remove, also when a removed camera is passed to
\* addExisting again, a camera keeps the id of its first registration.
C19_IdNeverChanges ==
    [][\A c \in DOMAIN cam \cap DOMAIN cam' :
          cam[c].id # 0 => cam'[c].id = cam[c].id]_vars

\* C19, amended: a camera's id changes only when addExisting registers the
\* camera while it is not in the cameras array, and it then becomes the
\* nextID of that moment; add, remove and addExisting of a registered
\* camera change no camera's id.
C19_IdChangesOnlyOnRegistration ==
    [][\A c \in DOMAIN cam \cap DOMAIN cam' :
          cam'[c].id # cam[c].id =>
              /\ last'.op = "addExisting"
              /\ last'.arg = c
              /\ c \notin Range(cameras)
              /\ c \in Range(cameras')
              /\ cam'[c].id = nextID]_vars

\* a camera that had an id was registered again and holds another id
C19_Witness ==
    /\ last.op = "addExisting"
    /\ last.ret = last.arg
    /\ last.id0 # 0
    /\ cam[last.arg].id # last.id0
    /\ Len(cameras) >= 2

\* C20: identity bits are not reused without a resetAll: remove leaves
\* nextID as it was, and over add, addExisting, fromJSON, remove, shutdown
\* and start the id given to a newly registered camera differs from every
\* id given out since the last resetAll or since construction, ids of
\* cameras removed since included.
C20_IdsNeverReused ==
    [][/\ last'.op = "remove" => nextID' = nextID
       /\ last'.op # "resetAll" =>
              \A c \in Range(cameras') \ Range(cameras) : cam'[c].id \notin issued]_vars

\* C21: remove never calls the removed camera's destroy; resetAll, shutdown
\* and destroy call destroy exactly once on every camera that is in the
\* cameras array when they are called, whether add created it or
\* addExisting supplied it, and on no other camera.
IsDestroy(call) == call[1] = "destroy"

C21_DestroyOncePerRegistered ==
    [][LET destroyed == SelectSeq(calls', IsDestroy)
       IN  /\ last'.op = "remove" => destroyed = <<>>
           /\ (\/ last'.op = "resetAll"
               \/ last'.op = "shutdown" /\ host = "Started"
               \/ last'.op = "destroy" /\ host \in ApiStates) =>
                  /\ Len(destroyed) = Len(cameras)
                  /\ \A i \in 1..Len(cameras) :
                         destroyed[i] = <<"destroy", cameras[i]>>]_vars

\* the destroy signal found two registered cameras and destroyed both
C21_Witness ==
    /\ last.op = "destroy"
    /\ host = "Destroyed"
    /\ last.len0 = 2
    /\ Len(SelectSeq(calls, IsDestroy)) = 2

\* C22: update calls update exactly once on every camera in the cameras
\* array, in array order, whether or not the camera is visible or has
\* alpha above 0, and leaves cameras, main and nextID unchanged.
C22_UpdateEveryCamera ==
    [][last'.op = "update()" =>
          /\ Len(calls') = Len(cameras)
          /\ \A i \in 1..Len(cameras) : calls'[i] = <<"update", cameras[i]>>
          /\ cameras' = cameras
          /\ main' = main
          /\ nextID' = nextID]_vars

\* an update of an invisible and a fully transparent camera
C22_Witness ==
    /\ last.op = "update()"
    /\ Len(cameras) = 2
    /\ Len(calls) = 2
    /\ \E c \in Range(cameras) : ~cam[c].visible
    /\ \E c \in Range(cameras) : cam[c].alpha = 0

\* C23: fromJSON given a list of n configuration records appends exactly n
\* cameras to the cameras array, in list order, with consecutive identity
\* bits taken from nextID; a single record behaves as a list of one; main
\* is not changed; the manager itself is returned.
C23_FromJSONAppends ==
    [][last'.op = "fromJSON" =>
          LET config == last'.param
              list == IF config.isArray THEN config.items ELSE <<config.items[1]>>
              n == Len(list)
              len0 == Len(cameras)
          IN  /\ Len(cameras') = len0 + n
              /\ SubSeq(cameras', 1, len0) = cameras
              /\ \A i \in 1..n :
                     LET camera == cameras'[len0 + i]
                     IN  /\ camera \notin DOMAIN cam
                         /\ cam'[camera].name = GetFastValue(list[i], "name", "")
                         /\ cam'[camera].x = GetFastValue(list[i], "x", 0)
                         /\ cam'[camera].id =
                                IF i = 1 THEN nextID
                                ELSE Shl1(cam'[cameras'[len0 + i - 1]].id)
              /\ nextID' = IF n = 0 THEN nextID ELSE Shl1(cam'[cameras'[len0 + n]].id)
              /\ main' = main
              /\ last'.ret = This]_vars

\* a list of two different records was given to a registry with a main
\* camera
C23_Witness ==
    /\ last.op = "fromJSON"
    /\ last.param.isArray
    /\ Len(last.param.items) = 2
    /\ last.param.items[1] # last.param.items[2]
    /\ last.len0 = 1
    /\ Len(cameras) = 3
    /\ main = cameras[1]

\* C24: the cameras array never contains the same camera twice, whatever
\* add, addExisting (of a new, a registered or a removed camera), fromJSON,
\* remove, resetAll and lifecycle signals have run.
C24_NoCameraTwice ==
    \A i, j \in 1..Len(cameras) : i # j => cameras[i] # cameras[j]

\* addExisting has registered, as main, a camera that was removed earlier
C24_Witness ==
    /\ last.op = "addExisting"
    /\ last.id0 # 0
    /\ last.ret = last.arg
    /\ main = last.arg
    /\ Len(cameras) = 2

TypeOK ==
    /\ main \in DOMAIN cam \cup {NoRef}
    /\ host \in {"Unbooted", "Booted", "Started", "ShutDown", "Destroyed"}
    /\ Range(cameras) \cup held = DOMAIN cam
====
